---- MODULE Spec2Model ----
(***************************************************************************)
(* Equity-research pipeline (legacy/flows/research_flow.py) as a state     *)
(* machine: the orchestrator main_research_flow, the fourteen stage        *)
(* subflows with their cache-retrieval / fetch / analysis / reporting      *)
(* tasks, the report cache and the job tracker.                            *)
(***************************************************************************)
EXTENDS Integers, Sequences, FiniteSets, TLC

\* ---------------------------------------------------------------- bounds
MaxRuns == 2
MaxFaults == 1

Symbols == {"AAPL", "ZZZZ"}
NoSymbol == "none"

\* ------------------------------------------------------- stages and kinds
\* The hand-ordered sequence of stages of main_research_flow.
StageOrderSwapped ==
    << "company_overview", "global_quote", "historical_earnings",
       "earnings_projections", "financial_statements", "management_guidance",
       "forward_pe_sanity_check", "forward_pe", "peer_group",
       "news_sentiment", "cross_reference", "comprehensive_report",
       "trade_ideas", "key_insights" >>

StageOrder ==
    << "company_overview", "global_quote", "historical_earnings",
       "financial_statements", "earnings_projections", "management_guidance",
       "peer_group", "forward_pe_sanity_check", "forward_pe",
       "news_sentiment", "cross_reference", "trade_ideas",
       "comprehensive_report", "key_insights" >>

Stages ==
    { "company_overview", "global_quote", "historical_earnings",
      "financial_statements", "earnings_projections", "management_guidance",
      "peer_group", "forward_pe_sanity_check", "forward_pe",
      "news_sentiment", "cross_reference", "trade_ideas",
      "comprehensive_report", "key_insights" }

NumStages == Len(StageOrder)

\* Position of a stage in the flow.
PosOf(s) == CHOOSE i \in 1..NumStages : StageOrder[i] = s

\* Stages whose cache is the JSON file output/{symbol}/<name>.json.
FileCached == {"company_overview", "global_quote"}

\* peer_group_agent is called by the flow directly; it has no retrieval task.
Uncached == {"peer_group"}

\* Retrieval tasks imported by the subflows whose files are not in the tree.
RetrievalNotInTree == {"historical_earnings", "management_guidance"}

\* Stages with a fetch step (market-data collaborator).
HasFetch ==
    { "company_overview", "global_quote", "historical_earnings",
      "financial_statements", "earnings_projections", "management_guidance",
      "forward_pe_sanity_check", "forward_pe", "news_sentiment" }

\* Variant in which historical_earnings_flow has no analysis step either.
HasAnalysisButHistoricalEarnings == Stages \ {"global_quote", "historical_earnings"}

\* Stages with an analysis step (global_quote only fetches).
HasAnalysis == Stages \ {"global_quote"}

\* The analyses main_research_flow passes to a stage as arguments.
Upstream(s) ==
    CASE s = "earnings_projections" -> {"historical_earnings", "financial_statements"}
      [] s = "management_guidance"  -> {"historical_earnings", "financial_statements"}
      [] s = "peer_group"           -> {"financial_statements"}
      [] s = "forward_pe"           -> {"peer_group", "earnings_projections",
                                        "management_guidance", "forward_pe_sanity_check"}
      [] s = "news_sentiment"       -> {"peer_group", "earnings_projections",
                                        "management_guidance"}
      [] s = "cross_reference"      -> {"forward_pe", "news_sentiment", "historical_earnings",
                                        "financial_statements", "earnings_projections",
                                        "management_guidance"}
      [] s = "trade_ideas"          -> {"forward_pe", "news_sentiment", "historical_earnings",
                                        "financial_statements", "earnings_projections",
                                        "management_guidance"}
      [] s = "comprehensive_report" -> Stages \ {"comprehensive_report", "key_insights"}
      [] s = "key_insights"         -> {"comprehensive_report"}
      [] OTHER                      -> {}

\* Fetch utilities that wrap the collaborator calls in try/except.
FetchWithFallback ==
    { "company_overview", "global_quote", "historical_earnings",
      "financial_statements", "earnings_projections", "management_guidance" }

\* Reporting tasks that cache_report(...) and then write reports/<file>.json.
CacheAndFileReporting ==
    { "historical_earnings", "financial_statements", "earnings_projections",
      "management_guidance", "peer_group", "forward_pe_sanity_check",
      "forward_pe", "news_sentiment", "cross_reference", "trade_ideas" }

\* ------------------------------------------------------------ data values
NoRecord == [by |-> 0, kind |-> "none", symbol |-> NoSymbol]
EmptyList == [by |-> 0, kind |-> "empty_list", symbol |-> NoSymbol]

NoRaw == [kind |-> "none", symbol |-> NoSymbol, empty |-> TRUE, transcript |-> FALSE]

NoEntry == [shape |-> "none", rec |-> NoRecord]

NoExc == [stage |-> "none", msg |-> "none"]

NoResult == [symbol |-> NoSymbol, comprehensive_report |-> NoRecord, key_insights |-> NoRecord]

\* Shapes a stored entry can have when it was not written by the current
\* schema: "drift" (fields no longer match), "metaonly" (only _cache_* keys),
\* "badjson" (file is not JSON), "deep" (JSON nested beyond the decoder's
\* recursion limit).
SupabaseShapes == {"drift", "metaonly"}
FileShapes == {"drift", "badjson", "deep"}

ForeignShapes(s) == IF s \in FileCached THEN FileShapes ELSE SupabaseShapes


\* ------------------------------------------------- cache retrieval tasks
\* Result of a retrieval task: out is "hit" (cached_result is not None),
\* "miss" (None) or "raise"; read tells whether the store was consulted.
Hit(r) == [out |-> "hit", read |-> TRUE, rec |-> r, msg |-> "none"]
Miss(wasRead) == [out |-> "miss", read |-> wasRead, rec |-> NoRecord, msg |-> "none"]
ReadRaise(m) == [out |-> "raise", read |-> TRUE, rec |-> NoRecord, msg |-> m]

\* Variant that serves the cached entry even under force_recompute.
supabase_cache_retrieval_ignores_force(force_recompute, entry) ==
    IF entry.shape = "good" THEN Hit(entry.rec) ELSE Miss(TRUE)

\* Variant that consults the store first and tests force_recompute afterwards.
supabase_cache_retrieval_reads_first(force_recompute, entry) ==
    IF force_recompute THEN Miss(TRUE)
    ELSE IF entry.shape = "good" THEN Hit(entry.rec) ELSE Miss(TRUE)

\* Supabase-backed retrieval task of a single-record stage: force_recompute
\* returns None before any get; a missing entry is a miss; reconstruction
\* Model(**clean_data) is wrapped in try/except Exception.
supabase_cache_retrieval_task(force_recompute, entry) ==
    IF force_recompute THEN Miss(FALSE)
    ELSE IF entry.shape = "none" THEN Miss(TRUE)
    ELSE IF entry.shape = "good" THEN Hit(entry.rec)
    ELSE Miss(TRUE)

\* cross_reference retrieval: the value is a list.  With a list under 'data'
\* the items are reconstructed; otherwise the comprehension iterates the keys
\* of clean_data: any key makes Completion(**key) fail (caught), but with no
\* key left after stripping _cache_* the comprehension yields [] and the
\* task returns that empty list.
cross_reference_cache_retrieval_task(force_recompute, entry) ==
    IF force_recompute THEN Miss(FALSE)
    ELSE IF entry.shape = "none" THEN Miss(TRUE)
    ELSE IF entry.shape = "good" THEN Hit(entry.rec)
    ELSE IF entry.shape = "metaonly" THEN Hit(EmptyList)
    ELSE Miss(TRUE)

\* File-backed retrieval (company_overview, global_quote): os.path.exists,
\* json.load and Model(**cached_data) under
\* except (JSONDecodeError, FileNotFoundError, TypeError, ValueError).
\* A RecursionError from json.load is not in that tuple.
file_cache_retrieval_task(force_recompute, entry) ==
    IF force_recompute THEN Miss(FALSE)
    ELSE IF entry.shape = "none" THEN Miss(TRUE)
    ELSE IF entry.shape = "good" THEN Hit(entry.rec)
    ELSE IF entry.shape = "deep" THEN ReadRaise("RecursionError")
    ELSE Miss(TRUE)

\* historical_earnings / management_guidance retrieval tasks (files absent):
\* the Cache Gateway contract get -> record | MISS with force bypass.
gateway_cache_retrieval_task(force_recompute, entry) ==
    IF force_recompute THEN Miss(FALSE)
    ELSE IF entry.shape = "good" THEN Hit(entry.rec)
    ELSE Miss(TRUE)

cache_retrieval_task(s, force_recompute, entry) ==
    IF s \in FileCached THEN file_cache_retrieval_task(force_recompute, entry)
    ELSE IF s = "cross_reference" THEN cross_reference_cache_retrieval_task(force_recompute, entry)
    ELSE IF s \in RetrievalNotInTree THEN gateway_cache_retrieval_task(force_recompute, entry)
    ELSE supabase_cache_retrieval_task(force_recompute, entry)

\* ------------------------------------------------------------ fetch tasks
\* api is the market-data collaborator's behaviour: "ok", "error" (a call
\* raises) or, for the transcript endpoint only, "no_transcript".
RawData(sym, isEmpty, hasTranscript) ==
    [kind |-> "data", symbol |-> sym, empty |-> isEmpty, transcript |-> hasTranscript]
FetchOk(r) == [out |-> "ok", raw |-> r, msg |-> "none"]
FetchRaise(m) == [out |-> "raise", raw |-> NoRaw, msg |-> m]

\* get_*_data_for_symbol of company_overview, global_quote,
\* historical_earnings, financial_statements, earnings_projections and
\* management_guidance: except Exception -> record with symbol and empty
\* collections.
fetch_with_fallback(symbol, api) ==
    IF api = "error" THEN FetchOk(RawData(symbol, TRUE, FALSE))
    ELSE FetchOk(RawData(symbol, FALSE, api = "ok"))

\* forward_pe_sanity_check fetch: no try/except around the four API calls.
get_quarterly_eps_data_for_symbol(symbol, api) ==
    IF api = "error" THEN FetchRaise("AlphaVantageError")
    ELSE FetchOk(RawData(symbol, FALSE, TRUE))

\* forward_pe fetch over [symbol] + peers: a symbol whose calls raise is
\* skipped, so with the collaborator failing the result is the empty list.
get_quarterly_eps_data_for_symbols(symbol, api) ==
    IF api = "error"
    THEN FetchOk([kind |-> "list", symbol |-> NoSymbol, empty |-> TRUE, transcript |-> FALSE])
    ELSE FetchOk([kind |-> "list", symbol |-> symbol, empty |-> FALSE, transcript |-> TRUE])

\* news_sentiment fetch: loop over the peers with no try/except.
get_news_sentiment_summary_for_peer_group(symbol, api) ==
    IF api = "error" THEN FetchRaise("AlphaVantageError")
    ELSE FetchOk([kind |-> "list", symbol |-> symbol, empty |-> FALSE, transcript |-> TRUE])

fetch_task(s, symbol, api) ==
    IF s \in FetchWithFallback THEN fetch_with_fallback(symbol, api)
    ELSE IF s = "forward_pe_sanity_check" THEN get_quarterly_eps_data_for_symbol(symbol, api)
    ELSE IF s = "forward_pe" THEN get_quarterly_eps_data_for_symbols(symbol, api)
    ELSE get_news_sentiment_summary_for_peer_group(symbol, api)

\* API behaviours that can be chosen for a stage's fetch.
ApiOutcomes(s) ==
    IF s = "management_guidance" THEN {"ok", "error", "no_transcript"} ELSE {"ok", "error"}


\* --------------------------------------------------------- analysis tasks
\* llm is the LLM collaborator's behaviour: "ok" or "error" (the run raises).
AnalysisOk(r) == [out |-> "ok", rec |-> r, msg |-> "none"]
AnalysisRaise(m) == [out |-> "raise", rec |-> NoRecord, msg |-> m]
Rec(runId, k, sym) == [by |-> runId, kind |-> k, symbol |-> sym]

\* Analysis tasks that await the agent with no try/except: an LLM failure
\* leaves the task as an exception; empty input data still yields a record.
analysis_task_propagating(runId, symbol, raw, llm) ==
    IF llm = "error" THEN AnalysisRaise("LLMError")
    ELSE AnalysisOk(Rec(runId, IF raw.empty THEN "insufficient" ELSE "full", symbol))

\* company_overview_agent: except Exception -> _create_fallback_analysis.
company_overview_agent(runId, symbol, raw, llm) ==
    IF llm = "error" THEN AnalysisOk(Rec(runId, "fallback", symbol))
    ELSE AnalysisOk(Rec(runId, IF raw.empty THEN "insufficient" ELSE "full", symbol))

\* _create_no_transcript_analysis / _create_error_analysis: the fields of the
\* ManagementGuidanceAnalysis built without the LLM; narrative is the reason
\* the three text fields give.
create_no_transcript_analysis ==
    [transcript_available |-> FALSE, overall_guidance_tone |-> "NEUTRAL",
     consensus_validation_signal |-> "NEUTRAL", narrative |-> "no_transcript"]

create_error_analysis(error_msg) ==
    [transcript_available |-> FALSE, overall_guidance_tone |-> "NEUTRAL",
     consensus_validation_signal |-> "NEUTRAL", narrative |-> error_msg]

\* The fields a management_guidance record holds; those of a record the LLM
\* wrote are the LLM's.
GuidanceFields(rec) ==
    IF rec.kind = "no_transcript" THEN create_no_transcript_analysis
    ELSE IF rec.kind = "llm_error" THEN create_error_analysis("LLMError")
    ELSE [transcript_available |-> TRUE, overall_guidance_tone |-> "llm",
          consensus_validation_signal |-> "llm", narrative |-> "llm"]

\* Variant without the try/except around Runner.run.
management_guidance_agent_raising(runId, symbol, raw, llm) ==
    IF ~raw.transcript THEN AnalysisOk(Rec(runId, "no_transcript", symbol))
    ELSE IF llm = "error" THEN AnalysisRaise("LLMError")
    ELSE AnalysisOk(Rec(runId, "full", symbol))

\* management_guidance_agent: no transcript -> _create_no_transcript_analysis
\* without calling the LLM; LLM failure -> _create_error_analysis.
management_guidance_agent(runId, symbol, raw, llm) ==
    IF ~raw.transcript THEN AnalysisOk(Rec(runId, "no_transcript", symbol))
    ELSE IF llm = "error" THEN AnalysisOk(Rec(runId, "llm_error", symbol))
    ELSE AnalysisOk(Rec(runId, "full", symbol))

\* ---- cross reference
\* Flows enum, in the order cross_reference_flow lists its completions.
Flows ==
    << "forward_pe", "news_sentiment", "historical_earnings",
       "financial_statements", "earnings_projections", "management_guidance" >>

FlowTypes == { Flows[i] : i \in 1..Len(Flows) }

Range(q) == { q[i] : i \in 1..Len(q) }

\* One call of cross_reference_task: the type of the original analysis and
\* the types of the analyses passed as data_points, in the order of the list.
Pass(t, dps) == [original |-> t, data_points |-> dps]

forward_pe_cross_reference ==
    Pass("forward_pe",
         << "news_sentiment", "historical_earnings", "financial_statements",
            "earnings_projections", "management_guidance" >>)

news_sentiment_cross_reference ==
    Pass("news_sentiment",
         << "forward_pe", "historical_earnings", "financial_statements",
            "earnings_projections", "management_guidance" >>)

\* Variant whose data_points list also holds the original analysis.
historical_earnings_cross_reference_with_self ==
    Pass("historical_earnings",
         << "forward_pe", "news_sentiment", "historical_earnings", "financial_statements",
            "earnings_projections", "management_guidance" >>)

historical_earnings_cross_reference ==
    Pass("historical_earnings",
         << "forward_pe", "news_sentiment", "financial_statements",
            "earnings_projections", "management_guidance" >>)

financial_statements_cross_reference ==
    Pass("financial_statements",
         << "forward_pe", "historical_earnings", "news_sentiment",
            "earnings_projections", "management_guidance" >>)

earnings_projections_cross_reference ==
    Pass("earnings_projections",
         << "forward_pe", "historical_earnings", "news_sentiment",
            "financial_statements", "management_guidance" >>)

management_guidance_cross_reference ==
    Pass("management_guidance",
         << "forward_pe", "historical_earnings", "news_sentiment",
            "financial_statements", "earnings_projections" >>)

\* The six calls of cross_reference_flow, in the order it awaits them.
cross_reference_passes ==
    << forward_pe_cross_reference, news_sentiment_cross_reference,
       historical_earnings_cross_reference, financial_statements_cross_reference,
       earnings_projections_cross_reference, management_guidance_cross_reference >>

\* What the LLM can put in a CrossReferencedAnalysisCompletion: "ok" (labelled
\* with the type it was given, adjustments blame data points), "self_blame"
\* (an adjustment lists the original's own type among the causes),
\* "mislabelled" (original_analysis_type is that of the first data point).
\* output_type only constrains the values to the Flows enum.
XrefOutputs == {"ok", "self_blame", "mislabelled"}

cross_reference_agent(pass, out) ==
    [original_analysis_type |->
         IF out = "mislabelled" THEN pass.data_points[1] ELSE pass.original,
     causing |->
         IF out = "self_blame" THEN {pass.original, pass.data_points[1]}
         ELSE {pass.data_points[1]}]

\* cross_reference_task: Runner.run(...) and return result.final_output as is.
cross_reference_task(pass, out) == cross_reference_agent(pass, out)

\* The list cross_reference_flow builds on a cache miss.
cross_referenced_analysis(out) ==
    [i \in 1..Len(cross_reference_passes) |-> cross_reference_task(cross_reference_passes[i], out)]

\* The cross_reference record of a run whose LLM output was out.
cross_reference_analysis(runId, symbol, llm) ==
    IF llm = "error" THEN AnalysisRaise("LLMError")
    ELSE AnalysisOk(Rec(runId, IF llm = "ok" THEN "full" ELSE llm, symbol))

\* The list of completions a cross_reference record holds.
Completions(rec) ==
    IF rec.kind \in {"none", "empty_list"} THEN << >>
    ELSE cross_referenced_analysis(IF rec.kind = "full" THEN "ok" ELSE rec.kind)

\* ---- peer group
\* Peer lists the LLM can return for a symbol: PeerGroup.peer_group is a
\* List[str] that peer_group_agent hands on as it is.
Peer == "MSFT"
PeerOutputs(symbol) == { << Peer >>, << Peer, symbol >>, << >> }

\* news_sentiment_fetch_summaries_task: peer_group.append(symbol) on the list
\* object of the flow's PeerGroup, before the fetch.
news_sentiment_fetch_summaries_task_peer_group(symbol, peer_group) ==
    Append(peer_group, symbol)

\* forward_pe_fetch_earnings_for_symbols_task: [symbol] + peer_group is a
\* new list, the PeerGroup's list is left as it is.
forward_pe_fetch_earnings_for_symbols_task_peer_group(symbol, peer_group) == peer_group

\* LLM behaviours of a stage's analysis; an output other than "ok" and a peer
\* list other than << Peer >> count as misbehaviours of the collaborator.
LLMOutcomes(s) == IF s = "cross_reference" THEN XrefOutputs \cup {"error"} ELSE {"ok", "error"}

analysis_task(s, runId, symbol, raw, llm) ==
    IF s = "company_overview" THEN company_overview_agent(runId, symbol, raw, llm)
    ELSE IF s = "management_guidance" THEN management_guidance_agent(runId, symbol, raw, llm)
    ELSE IF s = "cross_reference" THEN cross_reference_analysis(runId, symbol, llm)
    ELSE analysis_task_propagating(runId, symbol, raw, llm)

\* Whether the analysis step reaches the LLM collaborator at all.
CallsLLM(s, raw) == s # "management_guidance" \/ raw.transcript

\* global_quote has no analysis step: the fetched GlobalQuoteData is the record.
QuoteRecord(runId, raw) ==
    Rec(runId, IF raw.empty THEN "insufficient" ELSE "full", raw.symbol)

\* -------------------------------------------------------- reporting tasks
\* put: behaviour of cache_report ("ok" -> True and stored, "fail" -> False);
\* file: behaviour of the file writes ("ok", "error"; for the output/ tasks
\* "json_error" / "md_error" tell which of the two writes raised).
\* Result: tried (a cache write was attempted), stored (the entry was
\* replaced), out/msg (how the task ends).
Report(wasTried, wasStored, o, m) ==
    [tried |-> wasTried, stored |-> wasStored, out |-> o, msg |-> m]

\* historical_earnings_reporting_task and its nine siblings:
\* cache.cache_report(type, symbol, record, ttl=86400) with the result
\* ignored, then open(reports/<type>_<symbol>_<ts>.json, 'w') + json.dump
\* with no try/except.
cache_and_file_reporting_task(put, file) ==
    IF file = "error" THEN Report(TRUE, put = "ok", "raise", "OSError")
    ELSE Report(TRUE, put = "ok", "ok", "none")

\* comprehensive_report_reporting_task: cache_report and rag.add_document
\* both report failure by their boolean result, which is only logged.
comprehensive_report_reporting_task(put, file) ==
    Report(TRUE, put = "ok", "ok", "none")

\* key_insights_reporting_task: cache_report only, result logged.
key_insights_reporting_task(put, file) ==
    Report(TRUE, put = "ok", "ok", "none")

\* company_overview / global_quote reporting: os.makedirs, then the JSON file
\* that the retrieval task reads, then the markdown file; no try/except.
output_dir_reporting_task(put, file) ==
    IF file = "json_error" THEN Report(TRUE, FALSE, "raise", "OSError")
    ELSE IF file = "md_error" THEN Report(TRUE, TRUE, "raise", "OSError")
    ELSE Report(TRUE, TRUE, "ok", "none")

reporting_task(s, put, file) ==
    IF s \in FileCached THEN output_dir_reporting_task(put, file)
    ELSE IF s = "comprehensive_report" THEN comprehensive_report_reporting_task(put, file)
    ELSE IF s = "key_insights" THEN key_insights_reporting_task(put, file)
    ELSE cache_and_file_reporting_task(put, file)

\* Behaviours of the stores that can be chosen for a stage's reporting.
PutOutcomes(s) == IF s \in FileCached THEN {"ok"} ELSE {"ok", "fail"}
FileOutcomes(s) ==
    IF s \in FileCached THEN {"ok", "json_error", "md_error"}
    ELSE IF s \in CacheAndFileReporting THEN {"ok", "error"}
    ELSE IF s = "comprehensive_report" THEN {"ok", "rag_fail"}
    ELSE {"ok"}

\* ------------------------------------------------------------ job tracker
\* create / update: behaviour of the tracker's store for this call:
\* create in {"ok", "exception"}, update in {"ok", "not_found", "exception"}.
\* Result: ret (the task's boolean), failed (some tracker call failed),
\* out/msg (how the task ends) and the tracker state afterwards.
Tracked(r, f, o, m, c, ss, ms) ==
    [ret |-> r, failed |-> f, out |-> o, msg |-> m,
     created |-> c, sub |-> ss, main |-> ms]

\* Variant without the outer try/except: a create_job exception escapes.
update_job_status_task_raising(hasJob, flow, status, create, update, c, ss, ms) ==
    IF ~hasJob THEN Tracked(TRUE, FALSE, "ok", "none", c, ss, ms)
    ELSE IF flow # "main_research_flow"
    THEN IF flow \notin c /\ create = "exception"
         THEN Tracked(FALSE, TRUE, "raise", "TrackerError", c, ss, ms)
         ELSE LET ss1 == IF flow \in c THEN ss ELSE [ss EXCEPT ![flow] = "pending"]
              IN  IF update = "ok"
                  THEN Tracked(TRUE, FALSE, "ok", "none", c \cup {flow}, [ss1 EXCEPT ![flow] = status], ms)
                  ELSE Tracked(FALSE, TRUE, "ok", "none", c \cup {flow}, ss1, ms)
    ELSE IF update = "ok"
         THEN Tracked(TRUE, FALSE, "ok", "none", c, ss, status)
         ELSE Tracked(FALSE, TRUE, "ok", "none", c, ss, ms)

\* Variant that never records the created sub-job in _created_subjobs.
update_job_status_task_recreating(hasJob, flow, status, create, update, c, ss, ms) ==
    IF ~hasJob THEN Tracked(TRUE, FALSE, "ok", "none", c, ss, ms)
    ELSE IF flow # "main_research_flow"
    THEN IF flow \notin c /\ create = "exception"
         THEN Tracked(FALSE, TRUE, "ok", "none", c, ss, ms)
         ELSE LET ss1 == IF flow \in c THEN ss ELSE [ss EXCEPT ![flow] = "pending"]
              IN  IF update = "ok"
                  THEN Tracked(TRUE, FALSE, "ok", "none", c, [ss1 EXCEPT ![flow] = status], ms)
                  ELSE Tracked(FALSE, TRUE, "ok", "none", c, ss1, ms)
    ELSE IF update = "ok"
         THEN Tracked(TRUE, FALSE, "ok", "none", c, ss, status)
         ELSE Tracked(FALSE, TRUE, "ok", "none", c, ss, ms)

\* update_job_status_task: no job id -> True without touching the tracker;
\* a sub-flow gets its sub-job created (PENDING) on first use and then
\* updated by sub_job_id; "main_research_flow" updates the main job row.
\* JobTracker.update_job_status returns False for a missing row or an
\* exception; create_job re-raises, and the task's except returns False.
update_job_status_task(hasJob, flow, status, create, update, c, ss, ms) ==
    IF ~hasJob THEN Tracked(TRUE, FALSE, "ok", "none", c, ss, ms)
    ELSE IF flow # "main_research_flow"
    THEN IF flow \notin c /\ create = "exception"
         THEN Tracked(FALSE, TRUE, "ok", "none", c, ss, ms)
         ELSE LET ss1 == IF flow \in c THEN ss ELSE [ss EXCEPT ![flow] = "pending"]
              IN  IF update = "ok"
                  THEN Tracked(TRUE, FALSE, "ok", "none", c \cup {flow}, [ss1 EXCEPT ![flow] = status], ms)
                  ELSE Tracked(FALSE, TRUE, "ok", "none", c \cup {flow}, ss1, ms)
    ELSE IF update = "ok"
         THEN Tracked(TRUE, FALSE, "ok", "none", c, ss, status)
         ELSE Tracked(FALSE, TRUE, "ok", "none", c, ss, ms)


\* ------------------------------------------------------------------ state
VARIABLES
    profile,      \* "cli": called without job id; "api": called with a job id
    run,          \* number of runs started so far
    symbol,       \* symbol of the current run
    force,        \* force_recompute of the current run
    fpc,          \* position of main_research_flow
    idx,          \* index in StageOrder of the stage the flow is at
    step,         \* per stage: position of its subflow
    raw,          \* raw data record held by the running subflow
    ana,          \* analysis record held by the running subflow
    ret,          \* value the running subflow is about to return
    results,      \* the flow's local variables, one record per stage
    cache,        \* report store: symbol -> stage -> entry
    cache0,       \* the store as it was when the current run started
    invoked,      \* stages invoked in this run
    completed,    \* stages that returned a record to the flow in this run
    cacheRead,    \* stages whose retrieval task consulted the store
    fetched,      \* stages whose fetch step ran
    analyzed,     \* stages whose analysis step ran
    putTried,     \* stages whose reporting step attempted the cache write
    putStored,    \* stages whose cache write replaced the entry
    reported,     \* stages whose reporting step ran
    raised,       \* the exception a stage raised (stage and message)
    surfaced,     \* the exception that left main_research_flow
    returned,     \* the dict main_research_flow returned
    faults,       \* collaborator misbehaviours so far
    created,      \* _created_subjobs[main_job_id]
    subStatus,    \* status of each stage's sub-job row
    mainStatus,   \* status of the main job row
    lastUpdate,   \* outcome of the latest update_job_status_task call
    apc,          \* position of run_research_background ("none" without job id)
    mainTrace,    \* statuses the main job row has held, in order
    subTrace,     \* per stage: statuses written to its sub-job row, in order
    mainError,    \* error column of the main job row
    passes,       \* calls of cross_reference_task made in this run
    peers,        \* PeerGroup.peer_group of the run's PeerGroup object
    peers0,       \* that list as peer_group_agent returned it
    old,          \* stored entries (symbol, stage) written more than 24 hours ago
    wpc,          \* position of run_autonomous_workflow
    wtask,        \* state of quant_task, qual_task and macro_task
    wawaited,     \* tasks whose result or exception an await has retrieved
    wresult,      \* the WorkflowResult of the workflow
    wjob,         \* main job row written by run_autonomous_research_background
    aggregator,   \* TokenLoggerHook._aggregator: agent runs recorded since the last reset
    tpc,          \* per concurrent run: position between reset and read
    made,         \* per concurrent run: agent invocations it made since its reset
    token_usage   \* per concurrent run: the token_usage it returned

vars ==
    << profile, run, symbol, force, fpc, idx, step, raw, ana, ret, results,
       cache, cache0, invoked, completed, cacheRead, fetched, analyzed,
       putTried, putStored, reported, raised, surfaced, returned, faults,
       created, subStatus, mainStatus, lastUpdate, apc, mainTrace, subTrace,
       mainError, passes, peers, peers0, old, wpc, wtask, wawaited, wresult, wjob,
       aggregator, tpc, made, token_usage >>

content == << passes, peers, peers0 >>
agentVars == << wpc, wtask, wawaited, wresult, wjob >>
tokenVars == << aggregator, tpc, made, token_usage >>
aux == << agentVars, tokenVars >>
runLocals == << run, symbol, force, cache0 >>
callSets == << invoked, completed, cacheRead, fetched, analyzed, putTried, putStored, reported >>
trackerVars ==
    << created, subStatus, mainStatus, lastUpdate, apc, mainTrace, subTrace, mainError >>
stageLocals == << raw, ana, ret >>

Cur == StageOrder[idx]
HasJob == profile = "api"
Between == fpc \in {"idle", "returned", "failed"} /\ apc \in {"none", "done"}
InRun == fpc # "idle"
EnvFaultAllowed == profile = "cli" /\ faults < MaxFaults
\* With a job id the LLM fails only in the last run and only in a stage
\* whose analysis lets the exception through: the run then ends FAILED.
LLMFaultAllowed(s) ==
    \/ EnvFaultAllowed
    \/ profile = "api" /\ run = MaxRuns /\ s \notin {"company_overview", "management_guidance"}
TrackerFaultAllowed == profile = "api" /\ faults < MaxFaults

InFlight == {s \in Stages : step[s] \in {"retrieve", "fetch", "analyze", "report"}}

EmptyCache == [y \in Symbols |-> [s \in Stages |-> NoEntry]]

\* ---- autonomous workflow
\* quant_task, qual_task, macro_task, in the order the workflow awaits them.
TaskOrder == << "quantitative", "qualitative", "macro" >>
Tasks == {"quantitative", "qualitative", "macro"}

None == "None"

\* WorkflowResult(symbol=symbol): every report and the error default to None.
WorkflowResult(sym) ==
    [symbol |-> sym, quantitative_report |-> None, qualitative_report |-> None,
     macro_report |-> None, synthesis_report |-> None, trade_advice |-> None,
     error |-> None]

\* The WorkflowResult field the awaited task's value is assigned to.
Assign(res, t, v) ==
    CASE t = "quantitative" -> [res EXCEPT !.quantitative_report = v]
      [] t = "qualitative"  -> [res EXCEPT !.qualitative_report = v]
      [] t = "macro"        -> [res EXCEPT !.macro_report = v]

\* except Exception as e: result.error = str(e), on the result as built so far.
run_autonomous_workflow_on_exception(res, msg) == [res EXCEPT !.error = msg]

NoJob == [status |-> "none", error |-> None, result |-> None]

\* ---- token usage
\* Runs of main_research_flow that are in progress in the same process.
ConcurrentRuns == {"run_a", "run_b"}

\* Agent invocations a run makes at most.
MaxAgentRuns == 2

\* TokenAggregator(): no agent run recorded.
TokenAggregator == << >>

\* add_agent_run: one AgentTokenUsage appended; the entry is named after the
\* run whose agent ended.
add_agent_run(agg, r) == Append(agg, r)

\* TokenLoggerHook.reset: cls._aggregator = TokenAggregator().
reset(agg, r) == TokenAggregator

\* TokenLoggerHook.get_summary_dict: the agent_runs of cls._aggregator.
get_summary_dict(agg, r) == agg

InitCommon ==
    /\ run = 0
    /\ symbol = NoSymbol
    /\ force = FALSE
    /\ fpc = "idle"
    /\ idx = 1
    /\ step = [s \in Stages |-> "idle"]
    /\ raw = NoRaw
    /\ ana = NoRecord
    /\ ret = NoRecord
    /\ results = [s \in Stages |-> NoRecord]
    /\ cache = EmptyCache
    /\ cache0 = EmptyCache
    /\ invoked = {}
    /\ completed = {}
    /\ cacheRead = {}
    /\ fetched = {}
    /\ analyzed = {}
    /\ putTried = {}
    /\ putStored = {}
    /\ reported = {}
    /\ raised = NoExc
    /\ surfaced = NoExc
    /\ returned = NoResult
    /\ faults = 0
    /\ created = {}
    /\ subStatus = [s \in Stages |-> "none"]
    /\ mainStatus = "none"
    /\ lastUpdate = [ret |-> TRUE, failed |-> FALSE]
    /\ apc = "none"
    /\ mainTrace = << >>
    /\ subTrace = [s \in Stages |-> << >>]
    /\ mainError = "none"
    /\ passes = << >>
    /\ peers = << >>
    /\ peers0 = << >>
    /\ old = {}
    /\ wpc = "idle"
    /\ wtask = [t \in Tasks |-> "none"]
    /\ wawaited = {}
    /\ wresult = WorkflowResult(NoSymbol)
    /\ wjob = NoJob
    /\ aggregator = TokenAggregator
    /\ tpc = [r \in ConcurrentRuns |-> "idle"]
    /\ made = [r \in ConcurrentRuns |-> 0]
    /\ token_usage = [r \in ConcurrentRuns |-> << >>]

Init == profile = "cli" /\ InitCommon
InitApi == profile = "api" /\ InitCommon
InitWorkflow == profile = "autonomous" /\ InitCommon
InitTokens == profile = "concurrent" /\ InitCommon

\* ------------------------------------------------------ the orchestrator
\* Variant that catches a stage's exception and carries on.
main_research_flow_swallows(exc) == [fpc |-> "status_completed", surfaced |-> NoExc]

\* main_research_flow has no try/except: an exception raised by an awaited
\* call leaves the coroutine as it is and nothing after it runs.
main_research_flow_on_raise(exc) == [fpc |-> "failed", surfaced |-> exc]

\* Variant that schedules the stage and carries on without awaiting it.
AwaitFireAndForget(s) == TRUE

\* "x = await stage(...)": the flow resumes when the stage's coroutine has
\* finished, by return or by exception.
AwaitReady(s) == step[s] \in {"done", "raised"}

\* Symbols are interchangeable: the first run is for FirstSymbol, later runs
\* for the same or another symbol.
FirstSymbol == "AAPL"

\* main_research_flow, lines 53-78: a run starts (reset of the per-run state).
\* With a job id the run is started by start_research, which has created
\* the main job (PENDING) and scheduled run_research_background.
StartRun(sym, f) ==
    /\ Between
    /\ run < MaxRuns
    /\ run = 0 => sym = FirstSymbol
    /\ run' = run + 1
    /\ symbol' = sym
    /\ force' = f
    /\ cache0' = cache
    /\ fpc' = "main_status"
    /\ idx' = 1
    /\ step' = [s \in Stages |-> "idle"]
    /\ raw' = NoRaw /\ ana' = NoRecord /\ ret' = NoRecord
    /\ results' = [s \in Stages |-> NoRecord]
    /\ invoked' = {} /\ completed' = {} /\ cacheRead' = {} /\ fetched' = {}
    /\ analyzed' = {} /\ putTried' = {} /\ putStored' = {} /\ reported' = {}
    /\ raised' = NoExc /\ surfaced' = NoExc /\ returned' = NoResult
    /\ created' = {}
    /\ subStatus' = [s \in Stages |-> "none"]
    /\ mainStatus' = IF HasJob THEN "pending" ELSE "none"
    /\ lastUpdate' = [ret |-> TRUE, failed |-> FALSE]
    /\ apc' = IF HasJob THEN "running_update" ELSE "none"
    /\ mainTrace' = IF HasJob THEN << "pending" >> ELSE << >>
    /\ subTrace' = [s \in Stages |-> << >>]
    /\ mainError' = "none"
    /\ passes' = << >> /\ peers' = << >> /\ peers0' = << >>
    /\ UNCHANGED << profile, aux, old, cache, faults >>

\* A status entering the history of a row: a write of the status the row
\* already has is no transition.
Push(tr, st) == IF Len(tr) > 0 /\ tr[Len(tr)] = st THEN tr ELSE Append(tr, st)

\* One call of update_job_status_task from the flow, continuing at nextpc /
\* nextidx when the call returns.
CallUpdateJobStatus(flow, status, nextpc, nextidx) ==
    \E create \in {"ok", "exception"}, update \in {"ok", "not_found", "exception"} :
        LET isFault == create # "ok" \/ update # "ok"
            t == update_job_status_task(HasJob, flow, status, create, update,
                                        created, subStatus, mainStatus)
        IN  /\ isFault => TrackerFaultAllowed
            /\ create = "exception" =>
                   (flow # "main_research_flow" /\ flow \notin created /\ update = "ok")
            /\ faults' = faults + (IF isFault THEN 1 ELSE 0)
            /\ created' = t.created
            /\ subStatus' = t.sub
            /\ mainStatus' = t.main
            /\ lastUpdate' = [ret |-> t.ret, failed |-> t.failed]
            /\ subTrace' =
                   IF HasJob /\ flow # "main_research_flow"
                   THEN LET a == IF flow \notin created /\ create = "ok"
                                 THEN Append(subTrace[flow], "pending")
                                 ELSE subTrace[flow]
                        IN  [subTrace EXCEPT ![flow] = IF t.ret THEN Append(a, status) ELSE a]
                   ELSE subTrace
            /\ mainTrace' =
                   IF HasJob /\ flow = "main_research_flow" /\ t.ret
                   THEN Push(mainTrace, status)
                   ELSE mainTrace
            /\ UNCHANGED << apc, mainError >>
            /\ IF t.out = "raise"
               THEN LET h == main_research_flow_on_raise([stage |-> flow, msg |-> t.msg])
                    IN  /\ raised' = [stage |-> flow, msg |-> t.msg]
                        /\ surfaced' = h.surfaced
                        /\ fpc' = h.fpc
                        /\ idx' = idx
               ELSE /\ fpc' = nextpc
                    /\ idx' = nextidx
                    /\ UNCHANGED << raised, surfaced >>

\* research_flow.py line 80.
JobStatusMain ==
    /\ fpc = "main_status"
    /\ apc \in {"none", "flow"}
    /\ CallUpdateJobStatus("main_research_flow", "running", "status_running", idx)
    /\ UNCHANGED << profile, aux, old, content, runLocals, step, stageLocals, results, cache, callSets, returned >>

\* update_job_status_task(job_id, RUNNING, ..., "<stage>_flow", symbol).
JobStatusRunning ==
    /\ fpc = "status_running"
    /\ CallUpdateJobStatus(Cur, "running", "invoke", idx)
    /\ UNCHANGED << profile, aux, old, content, runLocals, step, stageLocals, results, cache, callSets, returned >>

\* The flow calls the stage's subflow (peer_group_agent for peer_group).
Invoke ==
    /\ fpc = "invoke"
    /\ invoked' = invoked \cup {Cur}
    /\ step' = [step EXCEPT ![Cur] = IF Cur \in Uncached THEN "analyze" ELSE "retrieve"]
    /\ fpc' = "await"
    /\ UNCHANGED << profile, aux, old, content, runLocals, idx, stageLocals, results, cache, completed,
                    cacheRead, fetched, analyzed, putTried, putStored, reported,
                    raised, surfaced, returned, faults, trackerVars >>

\* ------------------------------------------------------------ the stages
\* Input of a stage's analysis: the fetched raw data, or (stages without a
\* fetch step) the upstream records the flow passes in.
StageInput(s) == IF s \in HasFetch THEN raw ELSE RawData(symbol, FALSE, TRUE)

StageRaises(s, m) ==
    /\ raised' = [stage |-> s, msg |-> m]
    /\ step' = [step EXCEPT ![s] = "raised"]

\* <stage>_cache_retrieval_task, first statement of every subflow.
CacheRetrieval(s) ==
    /\ step[s] = "retrieve"
    /\ LET r == cache_retrieval_task(s, force, cache[symbol][s])
       IN  /\ cacheRead' = IF r.read THEN cacheRead \cup {s} ELSE cacheRead
           /\ CASE r.out = "hit" ->
                     /\ ret' = r.rec
                     /\ step' = [step EXCEPT ![s] = "done"]
                     /\ UNCHANGED raised
                [] r.out = "miss" ->
                     /\ step' = [step EXCEPT ![s] = IF s \in HasFetch THEN "fetch" ELSE "analyze"]
                     /\ UNCHANGED << ret, raised >>
                [] OTHER ->
                     /\ StageRaises(s, r.msg)
                     /\ UNCHANGED ret
    /\ UNCHANGED << profile, aux, old, content, runLocals, fpc, idx, raw, ana, results, cache, invoked,
                    completed, fetched, analyzed, putTried, putStored, reported,
                    surfaced, returned, faults, trackerVars >>

\* <stage>_fetch_task.
Fetch(s) ==
    /\ step[s] = "fetch"
    /\ \E api \in ApiOutcomes(s) :
        LET f == fetch_task(s, symbol, api)
        IN  /\ api # "ok" => EnvFaultAllowed
            /\ faults' = faults + (IF api # "ok" THEN 1 ELSE 0)
            /\ fetched' = fetched \cup {s}
            /\ peers' = IF s = "news_sentiment"
                         THEN news_sentiment_fetch_summaries_task_peer_group(symbol, peers)
                         ELSE IF s = "forward_pe"
                         THEN forward_pe_fetch_earnings_for_symbols_task_peer_group(symbol, peers)
                         ELSE peers
            /\ UNCHANGED << passes, peers0 >>
            /\ IF f.out = "raise"
               THEN /\ StageRaises(s, f.msg)
                    /\ UNCHANGED << raw, ana >>
               ELSE /\ raw' = f.raw
                    /\ ana' = IF s \in HasAnalysis THEN ana ELSE QuoteRecord(run, f.raw)
                    /\ step' = [step EXCEPT ![s] = IF s \in HasAnalysis THEN "analyze" ELSE "report"]
                    /\ UNCHANGED raised
    /\ UNCHANGED << profile, aux, old, runLocals, fpc, idx, ret, results, cache, invoked,
                    completed, cacheRead, analyzed, putTried, putStored, reported,
                    surfaced, returned, trackerVars >>

\* <stage>_analysis_task (peer_group_agent for peer_group, whose record goes
\* straight back to the flow).
Analysis(s) ==
    /\ step[s] = "analyze"
    /\ \E llm \in LLMOutcomes(s), pg \in PeerOutputs(symbol) :
        LET a == analysis_task(s, run, symbol, StageInput(s), llm)
            odd == llm \notin {"ok", "error"} \/ (s = "peer_group" /\ pg # << Peer >>)
        IN  /\ llm = "error" => (LLMFaultAllowed(s) /\ CallsLLM(s, StageInput(s)))
            /\ odd => EnvFaultAllowed
            /\ faults' = faults + (IF (llm = "error" /\ profile = "cli") \/ odd THEN 1 ELSE 0)
            /\ analyzed' = analyzed \cup {s}
            /\ passes' = IF s = "cross_reference" /\ a.out = "ok"
                          THEN cross_reference_passes ELSE passes
            /\ IF s = "peer_group" /\ a.out = "ok"
               THEN peers' = pg /\ peers0' = pg
               ELSE pg = << Peer >> /\ UNCHANGED << peers, peers0 >>
            /\ IF a.out = "raise"
               THEN /\ StageRaises(s, a.msg)
                    /\ UNCHANGED << ana, ret >>
               ELSE IF s \in Uncached
               THEN /\ ret' = a.rec
                    /\ step' = [step EXCEPT ![s] = "done"]
                    /\ UNCHANGED << ana, raised >>
               ELSE /\ ana' = a.rec
                    /\ step' = [step EXCEPT ![s] = "report"]
                    /\ UNCHANGED << ret, raised >>
    /\ UNCHANGED << profile, aux, old, runLocals, fpc, idx, raw, results, cache, invoked,
                    completed, cacheRead, fetched, putTried, putStored, reported,
                    surfaced, returned, trackerVars >>

\* Number of store misbehaviours in one reporting call.
ReportFaults(put, file) == (IF put # "ok" THEN 1 ELSE 0) + (IF file # "ok" THEN 1 ELSE 0)

GoodEntry(r) == [shape |-> "good", rec |-> r]

\* <stage>_reporting_task, last step of a subflow; the subflow then returns
\* the record it reported.
Reporting(s) ==
    /\ step[s] = "report"
    /\ \E put \in PutOutcomes(s), file \in FileOutcomes(s) :
        LET r == reporting_task(s, put, file)
        IN  /\ ReportFaults(put, file) > 0 => (profile = "cli" /\ faults + ReportFaults(put, file) <= MaxFaults)
            /\ faults' = faults + ReportFaults(put, file)
            /\ reported' = reported \cup {s}
            /\ putTried' = IF r.tried THEN putTried \cup {s} ELSE putTried
            /\ putStored' = IF r.stored THEN putStored \cup {s} ELSE putStored
            /\ cache' = IF r.stored THEN [cache EXCEPT ![symbol][s] = GoodEntry(ana)] ELSE cache
            /\ old' = IF r.stored THEN old \ {<< symbol, s >>} ELSE old
            /\ IF r.out = "raise"
               THEN /\ StageRaises(s, r.msg)
                    /\ UNCHANGED ret
               ELSE /\ ret' = ana
                    /\ step' = [step EXCEPT ![s] = "done"]
                    /\ UNCHANGED raised
    /\ UNCHANGED << profile, aux, content, runLocals, fpc, idx, raw, ana, results, invoked,
                    completed, cacheRead, fetched, analyzed, surfaced, returned,
                    trackerVars >>

\* The awaited stage hands control back to the flow: its record is bound to
\* the flow's local variable, or its exception continues through the flow.
Await ==
    /\ fpc = "await"
    /\ AwaitReady(Cur)
    /\ IF step[Cur] = "raised"
       THEN LET h == main_research_flow_on_raise(raised)
            IN  /\ fpc' = h.fpc
                /\ surfaced' = h.surfaced
                /\ step' = [step EXCEPT ![Cur] = "returned"]
                /\ UNCHANGED << results, completed, stageLocals >>
       ELSE /\ results' = [results EXCEPT ![Cur] = ret]
            /\ completed' = IF step[Cur] = "done" THEN completed \cup {Cur} ELSE completed
            /\ step' = [step EXCEPT ![Cur] = IF step[Cur] = "done" THEN "returned" ELSE @]
            /\ fpc' = "status_completed"
            /\ raw' = IF step[Cur] = "done" THEN NoRaw ELSE raw
            /\ ana' = IF step[Cur] = "done" THEN NoRecord ELSE ana
            /\ ret' = IF step[Cur] = "done" THEN NoRecord ELSE ret
            /\ UNCHANGED surfaced
    /\ UNCHANGED << profile, aux, old, content, runLocals, idx, cache, invoked, cacheRead, fetched,
                    analyzed, putTried, putStored, reported, raised, returned,
                    faults, trackerVars >>

\* update_job_status_task(job_id, COMPLETED, ..., "<stage>_flow", symbol);
\* the flow then moves to the next stage (peer_group: to its reporting call).
JobStatusCompleted ==
    /\ fpc = "status_completed"
    /\ CallUpdateJobStatus(Cur, "completed",
           IF Cur = "peer_group" THEN "peer_report"
           ELSE IF idx = NumStages THEN "finish" ELSE "status_running",
           IF Cur = "peer_group" \/ idx = NumStages THEN idx ELSE idx + 1)
    /\ UNCHANGED << profile, aux, old, content, runLocals, step, stageLocals, results, cache, callSets, returned >>

\* research_flow.py line 122: peer_group_reporting_task called by the flow
\* itself, after the COMPLETED update of the peer group stage.
PeerGroupReporting ==
    /\ fpc = "peer_report"
    /\ \E put \in PutOutcomes("peer_group"), file \in FileOutcomes("peer_group") :
        LET r == reporting_task("peer_group", put, file)
        IN  /\ ReportFaults(put, file) > 0 => (profile = "cli" /\ faults + ReportFaults(put, file) <= MaxFaults)
            /\ faults' = faults + ReportFaults(put, file)
            /\ reported' = reported \cup {"peer_group"}
            /\ putTried' = IF r.tried THEN putTried \cup {"peer_group"} ELSE putTried
            /\ putStored' = IF r.stored THEN putStored \cup {"peer_group"} ELSE putStored
            /\ cache' = IF r.stored
                        THEN [cache EXCEPT ![symbol]["peer_group"] = GoodEntry(results["peer_group"])]
                        ELSE cache
            /\ old' = IF r.stored THEN old \ {<< symbol, "peer_group" >>} ELSE old
            /\ IF r.out = "raise"
               THEN LET e == [stage |-> "peer_group", msg |-> r.msg]
                        h == main_research_flow_on_raise(e)
                    IN  /\ raised' = e
                        /\ surfaced' = h.surfaced
                        /\ fpc' = IF h.fpc = "failed" THEN "failed" ELSE "status_running"
                        /\ idx' = IF h.fpc = "failed" THEN idx ELSE idx + 1
               ELSE /\ fpc' = "status_running"
                    /\ idx' = idx + 1
                    /\ UNCHANGED << raised, surfaced >>
    /\ UNCHANGED << profile, aux, content, runLocals, step, stageLocals, results, invoked, completed,
                    cacheRead, fetched, analyzed, returned, trackerVars >>

\* research_flow.py lines 237-242: the returned dict.
Finish ==
    /\ fpc = "finish"
    /\ returned' = [symbol |-> symbol,
                    comprehensive_report |-> results["comprehensive_report"],
                    key_insights |-> results["key_insights"]]
    /\ fpc' = "returned"
    /\ UNCHANGED << profile, aux, old, content, runLocals, idx, step, stageLocals, results, cache, callSets,
                    raised, surfaced, faults, trackerVars >>

\* Between runs an entry written by an earlier run becomes a value the
\* current models cannot deserialize (schema drift, a damaged file).  The
\* finished call is over by then: what was observed of it is dropped.
ForeignEntry(sym, s, shape) ==
    /\ Between
    /\ run < MaxRuns
    /\ EnvFaultAllowed
    /\ s \notin Uncached
    /\ shape \in ForeignShapes(s)
    /\ cache[sym][s].shape = "good"
    /\ cache' = [cache EXCEPT ![sym][s] = [shape |-> shape, rec |-> NoRecord]]
    /\ cache0' = cache'
    /\ faults' = faults + 1
    /\ fpc' = "idle"
    /\ symbol' = NoSymbol
    /\ force' = FALSE
    /\ idx' = 1
    /\ step' = [t \in Stages |-> "idle"]
    /\ raw' = NoRaw /\ ana' = NoRecord /\ ret' = NoRecord
    /\ results' = [t \in Stages |-> NoRecord]
    /\ invoked' = {} /\ completed' = {} /\ cacheRead' = {} /\ fetched' = {}
    /\ analyzed' = {} /\ putTried' = {} /\ putStored' = {} /\ reported' = {}
    /\ raised' = NoExc /\ surfaced' = NoExc /\ returned' = NoResult
    /\ passes' = << >> /\ peers' = << >> /\ peers0' = << >>
    /\ UNCHANGED << profile, aux, old, run, trackerVars >>

\* ------------------------------------------------------- the job tracker
\* JobTracker.update_job_status: the row's status becomes the given status,
\* whatever status the row has; a missing row or an exception -> False and
\* the row is left as it is.
update_job_status(update, status, cur, err, curErr) ==
    IF update = "ok"
    THEN [ret |-> TRUE, status |-> status,
          error |-> IF status = "failed" THEN err ELSE curErr]
    ELSE [ret |-> FALSE, status |-> cur, error |-> curErr]

\* JobTracker.cancel_job: update_job_status(job_id, CANCELLED).
cancel_job(update, cur, curErr) == update_job_status(update, "cancelled", cur, "none", curErr)

\* Variant of the except branch that reports a fixed text.
run_research_background_generic_error(exc) == [status |-> "failed", error |-> "Research failed"]

\* run_research_background, except branch: FAILED with error=str(e).
run_research_background_on_exception(exc) == [status |-> "failed", error |-> exc.msg]

\* run_research_background, after the flow returned: COMPLETED with result.
run_research_background_on_return == [status |-> "completed", error |-> "none"]

\* One direct call of the tracker by run_research_background.
ApiUpdate(status, err) ==
    \E update \in {"ok", "not_found", "exception"} :
        LET u == update_job_status(update, status, mainStatus, err, mainError)
        IN  /\ update # "ok" => TrackerFaultAllowed
            /\ faults' = faults + (IF update # "ok" THEN 1 ELSE 0)
            /\ mainStatus' = u.status
            /\ mainError' = u.error
            /\ mainTrace' = IF u.ret THEN Push(mainTrace, u.status) ELSE mainTrace

\* api.py line 51: RUNNING before the flow is awaited.
ApiRunning ==
    /\ apc = "running_update"
    /\ ApiUpdate("running", "none")
    /\ apc' = "flow"
    /\ UNCHANGED << profile, aux, old, content, runLocals, fpc, idx, step, stageLocals, results, cache,
                    callSets, raised, surfaced, returned, created, subStatus,
                    lastUpdate, subTrace >>

\* api.py lines 57 and 61-63: the flow is over, by return or by exception.
ApiFinal ==
    /\ apc = "flow"
    /\ fpc \in {"returned", "failed"}
    /\ LET o == IF fpc = "returned" THEN run_research_background_on_return
                ELSE run_research_background_on_exception(surfaced)
       IN  ApiUpdate(o.status, o.error)
    /\ apc' = "done"
    /\ UNCHANGED << profile, aux, old, content, runLocals, fpc, idx, step, stageLocals, results, cache,
                    callSets, raised, surfaced, returned, created, subStatus,
                    lastUpdate, subTrace >>

\* JobTracker.cancel_job called on the main job of the latest run, at any
\* time after the job was created.
CancelJob ==
    /\ HasJob
    /\ run > 0
    /\ faults < MaxFaults
    /\ mainStatus # "cancelled"
    /\ LET u == cancel_job("ok", mainStatus, mainError)
       IN  /\ mainStatus' = u.status
           /\ mainError' = u.error
           /\ mainTrace' = Push(mainTrace, u.status)
    /\ faults' = faults + 1
    /\ UNCHANGED << profile, aux, old, content, runLocals, fpc, idx, step, stageLocals, results, cache,
                    callSets, raised, surfaced, returned, created, subStatus,
                    lastUpdate, subTrace, apc >>

ApiStep == ApiRunning \/ ApiFinal \/ CancelJob

StageStep ==
    \E s \in Stages : CacheRetrieval(s) \/ Fetch(s) \/ Analysis(s) \/ Reporting(s)

FlowStep ==
    \/ \E sym \in Symbols, f \in BOOLEAN : StartRun(sym, f)
    \/ JobStatusMain
    \/ JobStatusRunning
    \/ Invoke
    \/ Await
    \/ JobStatusCompleted
    \/ PeerGroupReporting
    \/ Finish

\* ------------------------------------------------------ report store TTL
\* The report store drops an entry when its ttl (86400 s) has run out.
supabase_after_ttl(entry) == NoEntry

\* output/{symbol}/<name>.json has no expiry: the file stays as it is.
file_after_ttl(entry) == entry

\* More than 24 hours pass between two runs.
DayPasses ==
    /\ Between
    /\ profile = "cli"
    /\ 0 < run /\ run < MaxRuns
    /\ \E sym \in Symbols, s \in Stages :
           cache[sym][s].shape # "none" /\ << sym, s >> \notin old
    /\ cache' = [sym \in Symbols |-> [s \in Stages |->
                     IF s \in FileCached THEN file_after_ttl(cache[sym][s])
                     ELSE supabase_after_ttl(cache[sym][s])]]
    /\ old' = { << sym, s >> \in Symbols \X Stages : cache'[sym][s].shape # "none" }
    /\ cache0' = cache'
    /\ fpc' = "idle"
    /\ symbol' = NoSymbol
    /\ force' = FALSE
    /\ idx' = 1
    /\ step' = [t \in Stages |-> "idle"]
    /\ raw' = NoRaw /\ ana' = NoRecord /\ ret' = NoRecord
    /\ results' = [t \in Stages |-> NoRecord]
    /\ invoked' = {} /\ completed' = {} /\ cacheRead' = {} /\ fetched' = {}
    /\ analyzed' = {} /\ putTried' = {} /\ putStored' = {} /\ reported' = {}
    /\ raised' = NoExc /\ surfaced' = NoExc /\ returned' = NoResult
    /\ passes' = << >> /\ peers' = << >> /\ peers0' = << >>
    /\ UNCHANGED << profile, aux, run, faults, trackerVars >>

Next ==
    \/ FlowStep
    \/ StageStep
    \/ \E sym \in Symbols, s \in Stages, shape \in SupabaseShapes \cup FileShapes : ForeignEntry(sym, s, shape)
    \/ DayPasses

NextApi == FlowStep \/ StageStep \/ ApiStep

\* Everything main_research_flow and its callers work on.
flowVars ==
    << run, symbol, force, fpc, idx, step, raw, ana, ret, results, cache, cache0,
       invoked, completed, cacheRead, fetched, analyzed, putTried, putStored,
       reported, raised, surfaced, returned, faults, trackerVars, content, old >>

\* -------------------------------------------------- autonomous workflow
\* symbol.upper().strip(), WorkflowResult(symbol), get_company_sector (which
\* never raises) and the three asyncio.create_task calls.
WorkflowStart(sym) ==
    /\ wpc \in {"idle", "stored"}
    /\ \A t \in Tasks : wtask[t] # "running"
    /\ wresult' = WorkflowResult(sym)
    /\ wtask' = [t \in Tasks |-> "running"]
    /\ wawaited' = {}
    /\ wjob' = [status |-> "running", error |-> None, result |-> None]
    /\ wpc' = "await_1"
    /\ UNCHANGED << profile, flowVars, tokenVars >>

\* A task created by the workflow finishes, with a value or an exception;
\* nothing cancels it, so it may finish after the workflow has returned.
TaskEnds(t, ok) ==
    /\ wtask[t] = "running"
    /\ wtask' = [wtask EXCEPT ![t] = IF ok THEN "done" ELSE "raised"]
    /\ UNCHANGED << profile, flowVars, tokenVars, wpc, wawaited, wresult, wjob >>

AwaitedTask == TaskOrder[IF wpc = "await_1" THEN 1 ELSE IF wpc = "await_2" THEN 2 ELSE 3]

\* result.<field> = await <task>: the value is assigned, or the task's
\* exception is raised in the workflow and caught by its except.
AwaitTask ==
    /\ wpc \in {"await_1", "await_2", "await_3"}
    /\ wtask[AwaitedTask] \in {"done", "raised"}
    /\ wawaited' = wawaited \cup {AwaitedTask}
    /\ IF wtask[AwaitedTask] = "done"
       THEN /\ wresult' = Assign(wresult, AwaitedTask, "report")
            /\ wpc' = CASE wpc = "await_1" -> "await_2"
                         [] wpc = "await_2" -> "await_3"
                         [] OTHER -> "synthesis"
       ELSE /\ wresult' = run_autonomous_workflow_on_exception(wresult, "TaskError")
            /\ wpc' = "returned"
    /\ UNCHANGED << profile, flowVars, tokenVars, wtask, wjob >>

\* Phase 2: result.synthesis_report = await run_synthesis_agent(...).
Synthesis(ok) ==
    /\ wpc = "synthesis"
    /\ IF ok
       THEN /\ wresult' = [wresult EXCEPT !.synthesis_report = "report"]
            /\ wpc' = "trade_advice"
       ELSE /\ wresult' = run_autonomous_workflow_on_exception(wresult, "SynthesisError")
            /\ wpc' = "returned"
    /\ UNCHANGED << profile, flowVars, tokenVars, wtask, wawaited, wjob >>

\* Phase 3: result.trade_advice = await run_trade_advice(...); return result.
TradeAdvice(ok) ==
    /\ wpc = "trade_advice"
    /\ wresult' = IF ok THEN [wresult EXCEPT !.trade_advice = "report"]
                  ELSE run_autonomous_workflow_on_exception(wresult, "TradeAdviceError")
    /\ wpc' = "returned"
    /\ UNCHANGED << profile, flowVars, tokenVars, wtask, wawaited, wjob >>

\* run_autonomous_research_background after the workflow has returned:
\* FAILED with the error and no result, or COMPLETED with result_dict.
AutonomousFinal ==
    /\ wpc = "returned"
    /\ wjob' = IF wresult.error # None
               THEN [status |-> "failed", error |-> wresult.error, result |-> None]
               ELSE [status |-> "completed", error |-> None, result |-> wresult]
    /\ wpc' = "stored"
    /\ UNCHANGED << profile, flowVars, tokenVars, wtask, wawaited, wresult >>

NextWorkflow ==
    \/ \E sym \in Symbols : WorkflowStart(sym)
    \/ \E t \in Tasks, ok \in BOOLEAN : TaskEnds(t, ok)
    \/ AwaitTask
    \/ \E ok \in BOOLEAN : Synthesis(ok)
    \/ \E ok \in BOOLEAN : TradeAdvice(ok)
    \/ AutonomousFinal

\* ------------------------------------------------------------ token usage
\* research_flow.py line 64: TokenLoggerHook.reset() at the start of a run.
TokenReset(r) ==
    /\ tpc[r] = "idle"
    /\ aggregator' = reset(aggregator, r)
    /\ tpc' = [tpc EXCEPT ![r] = "running"]
    /\ made' = [made EXCEPT ![r] = 0]
    /\ UNCHANGED << profile, flowVars, agentVars, token_usage >>

\* on_agent_end of a hook the run passed to Runner.run.
AgentEnd(r) ==
    /\ tpc[r] = "running"
    /\ made[r] < MaxAgentRuns
    /\ aggregator' = add_agent_run(aggregator, r)
    /\ made' = [made EXCEPT ![r] = @ + 1]
    /\ UNCHANGED << profile, flowVars, agentVars, tpc, token_usage >>

\* research_flow.py lines 237-242: "token_usage": get_summary_dict().
TokenRead(r) ==
    /\ tpc[r] = "running"
    /\ token_usage' = [token_usage EXCEPT ![r] = get_summary_dict(aggregator, r)]
    /\ tpc' = [tpc EXCEPT ![r] = "done"]
    /\ UNCHANGED << profile, flowVars, agentVars, aggregator, made >>

NextTokens == \E r \in ConcurrentRuns : TokenReset(r) \/ AgentEnd(r) \/ TokenRead(r)

Spec == Init /\ [][Next]_vars
SpecApi == InitApi /\ [][NextApi]_vars
SpecWorkflow == InitWorkflow /\ [][NextWorkflow]_vars
SpecTokens == InitTokens /\ [][NextTokens]_vars

\* ----------------------------------------------------------- properties
\* The analyses collected into all_analyses for the comprehensive report.
UpstreamOfReport ==
    {"company_overview", "global_quote", "historical_earnings", "financial_statements",
     "earnings_projections", "management_guidance", "peer_group",
     "forward_pe_sanity_check", "forward_pe", "news_sentiment", "cross_reference",
     "trade_ideas"}

\* C1: in every run, earnings_projections is invoked only after
\* historical_earnings and financial_statements have completed, forward_pe
\* only after peer_group has completed, and comprehensive_report only after
\* every upstream analysis has completed and its record is available.
C1_DependencyOrder ==
    /\ "earnings_projections" \in invoked =>
           {"historical_earnings", "financial_statements"} \subseteq completed
    /\ "forward_pe" \in invoked => "peer_group" \in completed
    /\ "comprehensive_report" \in invoked =>
           /\ UpstreamOfReport \subseteq completed
           /\ \A s \in UpstreamOfReport : results[s] # NoRecord

\* C1 witness: a run in which all three dependent stages have been invoked.
C1_Witness ==
    {"earnings_projections", "forward_pe", "comprehensive_report"} \subseteq invoked

LastStage == StageOrder[NumStages]

\* C2: once a stage before the terminal one has raised, no later stage of
\* the run is invoked, nothing is returned, and the exception that leaves
\* the run is the stage's exception with its message unchanged.
C2_ExceptionAborts ==
    (raised.stage # "none" /\ raised.stage # LastStage) =>
        /\ \A s \in invoked : PosOf(s) <= PosOf(raised.stage)
        /\ returned = NoResult
        /\ fpc \in {"await", "failed"}
        /\ fpc = "failed" => surfaced = raised

\* C2 witness: the historical earnings stage failed in its analysis and the
\* run has ended with that exception.
C2_Witness ==
    /\ fpc = "failed"
    /\ raised = [stage |-> "historical_earnings", msg |-> "LLMError"]
    /\ surfaced = raised

\* C3: at most one stage of a run is in flight, and a stage has started
\* only if every stage before it has returned and its record is bound.
C3_StrictlySequential ==
    /\ Cardinality(InFlight) <= 1
    /\ \A s \in Stages : step[s] # "idle" =>
           \A t \in Stages : PosOf(t) < PosOf(s) =>
               /\ step[t] = "returned"
               /\ t \in completed
               /\ results[t] # NoRecord

\* C3 witness: a stage in the middle of the run is in flight.
C3_Witness ==
    /\ step["financial_statements"] = "analyze"
    /\ InFlight = {"financial_statements"}
    /\ results["historical_earnings"] # NoRecord

\* A stage's fresh computation ran in this run (the steps the stage has).
Recomputed(s) ==
    /\ s \in HasFetch => s \in fetched
    /\ s \in HasAnalysis => s \in analyzed

\* The stage has handed its record to the flow and its reporting call, where
\* the flow makes it separately (peer_group), is over too.
Finished(s) == s \in completed /\ (s \in Uncached => s \in reported)

\* C4: in a run with force_recompute=false, a stage whose record an earlier
\* run wrote to the cache for this symbol runs neither its fetch nor its
\* analysis step, and the record it returns is the cached one.
C4_CacheHitIdempotent ==
    (InRun /\ ~force) =>
        \A s \in Stages : cache0[symbol][s].shape = "good" =>
            /\ s \notin fetched
            /\ s \notin analyzed
            /\ s \in completed => results[s] = cache0[symbol][s].rec

\* C5 as stated: in a run with force_recompute=true every finished stage
\* has run its fetch and analysis steps, and the cache entry for the stage
\* and symbol is the record computed in this run.
C5_ForceOverwritesAlways ==
    (InRun /\ force) =>
        \A s \in Stages : Finished(s) =>
            /\ Recomputed(s)
            /\ results[s].by = run
            /\ cache[symbol][s] = GoodEntry(results[s])

\* C5 amended: in a run with force_recompute=true every completed stage has
\* run its fetch and analysis steps and returns a record computed in this
\* run, and whenever the stage's cache write succeeded the cache entry for
\* the stage and symbol is that newly computed record.
C5_ForceOverwritesWhenStored ==
    (InRun /\ force) =>
        /\ \A s \in completed : Recomputed(s) /\ results[s].by = run
        /\ \A s \in putStored :
               /\ cache[symbol][s].shape = "good"
               /\ cache[symbol][s].rec.by = run
               /\ s \in completed => cache[symbol][s] = GoodEntry(results[s])

\* C5 witness: a forced second run over a cache that held the first run's
\* record has replaced that record by its own.
C5_Witness ==
    /\ force
    /\ cache0[symbol]["financial_statements"].shape = "good"
    /\ cache0[symbol]["financial_statements"].rec.by = 1
    /\ "financial_statements" \in completed \cap putStored
    /\ cache[symbol]["financial_statements"].rec.by = 2

\* C6: in a run with force_recompute=true no stage reads the cache, and
\* every stage that has reported attempted its cache write; a stage with a
\* subflow has reported by the time it completes.
C6_ForceBypassesGet ==
    (InRun /\ force) =>
        /\ cacheRead = {}
        /\ reported \subseteq putTried
        /\ completed \ Uncached \subseteq putTried
        /\ fpc = "returned" => putTried = Stages

\* C6 witness: a forced run over a populated cache has finished.
C6_Witness ==
    /\ force
    /\ fpc = "returned"
    /\ cache0[symbol]["earnings_projections"].shape = "good"
    /\ cache0[symbol]["global_quote"].shape = "good"
    /\ "earnings_projections" \in putTried

\* C7: when the stored entry of a stage cannot be deserialized, the cache
\* read does not raise and the stage computes afresh.
C7_ForeignEntryIsMiss ==
    (InRun /\ ~force) =>
        \A s \in invoked : cache0[symbol][s].shape \in ForeignShapes(s) =>
            /\ ~(raised.stage = s /\ s \notin fetched \cup analyzed)
            /\ s \in completed => Recomputed(s)

\* C8: a fetch step never ends in the market-data collaborator's exception,
\* and the raw data record a fetch step hands on carries the run's symbol.
C8_FetchDegrades ==
    InRun =>
        /\ raised.msg # "AlphaVantageError"
        /\ \A s \in HasFetch :
               (s \in fetched /\ step[s] \in {"analyze", "report"}) => raw.symbol = symbol

\* C9: no stage that has entered its reporting step ends in an exception.
C9_ReportingNeverAborts ==
    InRun => (raised.stage # "none" => raised.stage \notin reported)

\* Where the flow continues after a status update that returned normally.
AfterStatusUpdate ==
    IF fpc = "main_status" THEN "status_running"
    ELSE IF fpc = "status_running" THEN "invoke"
    ELSE IF Cur = "peer_group" THEN "peer_report"
    ELSE IF idx = NumStages THEN "finish"
    ELSE "status_running"

\* C10: a job-status update that fails returns False to the flow without
\* raising, the flow continues exactly where a successful update would have
\* left it, and a run that returns has completed every stage.
C10_StatusFailureNeverAborts ==
    [][ /\ (fpc \in {"main_status", "status_running", "status_completed"} /\ fpc' # fpc
             /\ lastUpdate'.failed) =>
            /\ ~lastUpdate'.ret
            /\ fpc' = AfterStatusUpdate
            /\ raised' = NoExc
            /\ surfaced' = NoExc
            /\ invoked' = invoked
        /\ fpc' = "returned" => (completed' = Stages /\ invoked' = Stages)
      ]_vars

\* C10 witness: a run with a job id has returned although a status update
\* of it failed, leaving a sub-job row short of COMPLETED.
C10_Witness ==
    /\ HasJob
    /\ fpc = "returned"
    /\ faults > 0
    /\ completed = Stages
    /\ \E s \in Stages : subStatus[s] # "completed"

\* Statuses after which a job is over.
Terminal == {"completed", "failed"}

\* No status follows a terminal one in a row's history.
EndsAtTerminal(tr) == \A i \in 1..Len(tr) : tr[i] \in Terminal => i = Len(tr)

\* C11: once the main job or a sub-job has reached COMPLETED or FAILED, no
\* later status update or cancel gives it another status.
C11_StatusMonotonic ==
    HasJob =>
        /\ EndsAtTerminal(mainTrace)
        /\ \A s \in Stages : EndsAtTerminal(subTrace[s])

\* Histories of a main job row that follow PENDING -> RUNNING -> COMPLETED | FAILED.
MainJobPaths ==
    { << "pending" >>, << "pending", "running" >>,
      << "pending", "running", "completed" >>, << "pending", "running", "failed" >> }

\* C12: the main job is created PENDING, is RUNNING once the run has
\* started, and ends COMPLETED when the flow returned and FAILED when it
\* raised, with no other transition on the way.
C12_MainJobStateMachine ==
    (HasJob /\ run > 0) =>
        /\ mainTrace \in MainJobPaths
        /\ invoked # {} => Len(mainTrace) >= 2
        /\ apc = "done" =>
               mainStatus = (IF fpc = "returned" THEN "completed" ELSE "failed")

\* The step of run_research_background that follows a flow that raised.
FailedRunReported == apc = "flow" /\ fpc = "failed" /\ apc' = "done"

\* After a stage has raised, no step of the same run is executed again.
NoRetry ==
    (raised # NoExc /\ run' = run /\ raised' = raised) =>
        /\ invoked' = invoked
        /\ fetched' = fetched
        /\ analyzed' = analyzed
        /\ reported' = reported

\* C13 as stated: when a run has aborted because a stage raised, the main
\* job is FAILED with the exception's message as its error, and nothing of
\* the run is retried.
C13_FailedRunMarkedAlways ==
    [][ /\ FailedRunReported => (mainStatus' = "failed" /\ mainError' = surfaced.msg)
        /\ NoRetry ]_vars

\* C13 amended: when a run has aborted because a stage raised, one FAILED
\* update carrying the exception's message is issued, the main job is
\* FAILED with that error whenever the tracker applies the update, and
\* nothing of the run is retried.
C13_FailedRunMarkedWhenApplied ==
    [][ /\ (FailedRunReported /\ faults' = faults) =>
               (mainStatus' = "failed" /\ mainError' = surfaced.msg)
        /\ (FailedRunReported /\ faults' # faults) =>
               (mainStatus' = mainStatus /\ mainError' = mainError)
        /\ NoRetry ]_vars

\* C13 witness: a run with a job id aborted in its historical earnings
\* analysis and its main job is FAILED with the exception's message.
C13_Witness ==
    /\ apc = "done"
    /\ fpc = "failed"
    /\ surfaced = [stage |-> "historical_earnings", msg |-> "LLMError"]
    /\ mainStatus = "failed"
    /\ mainError = "LLMError"

\* Histories of a sub-job row that follow PENDING -> RUNNING -> COMPLETED.
SubJobPaths ==
    { << >>, << "pending" >>, << "pending", "running" >>,
      << "pending", "running", "completed" >> }

\* C14 as stated: every stage has one sub-job, which goes PENDING ->
\* RUNNING -> COMPLETED; it is RUNNING before the stage is invoked and
\* COMPLETED only after the stage has returned.
C14_SubJobStateMachineAlways ==
    HasJob =>
        \A s \in Stages :
            /\ subTrace[s] \in SubJobPaths
            /\ s \in invoked => Len(subTrace[s]) >= 2
            /\ Len(subTrace[s]) = 3 => s \in completed
            /\ fpc = "returned" => Len(subTrace[s]) = 3

\* C14 amended: every stage has at most one sub-job, whose status never
\* moves backwards: it is written RUNNING only before the stage is invoked
\* and COMPLETED only after the stage has returned; it goes PENDING ->
\* RUNNING -> COMPLETED when every status update succeeds, and skips RUNNING
\* or stops short when the creation of the sub-job or a status update fails.
C14_SubJobStateMachineWhenApplied ==
    HasJob =>
        \A s \in Stages :
            /\ subTrace[s] \in SubJobPaths \cup { << "pending", "completed" >> }
            /\ (subTrace[s] # << >> /\ s \notin invoked) => (Cur = s /\ fpc = "invoke")
            /\ (Len(subTrace[s]) > 0 /\ subTrace[s][Len(subTrace[s])] = "completed") =>
                   s \in completed
            /\ faults = 0 =>
                   /\ subTrace[s] \in SubJobPaths
                   /\ s \in invoked => Len(subTrace[s]) >= 2
                   /\ fpc = "returned" => Len(subTrace[s]) = 3

\* C14 witness: a run has returned with every update applied, and every
\* stage's sub-job went through the three statuses.
C14_Witness ==
    /\ HasJob
    /\ fpc = "returned"
    /\ faults = 0
    /\ \A s \in Stages : subTrace[s] = << "pending", "running", "completed" >>

\* The completions the cross-reference stage handed to the flow in this run.
XrefResult == Completions(results["cross_reference"])

\* The stage returned to the flow in a run that produced the six analyses.
XrefReturned ==
    /\ InRun
    /\ "cross_reference" \in completed
    /\ \A t \in FlowTypes : results[t] # NoRecord

\* C15: when the six core analyses were produced, the cross-reference stage
\* yields six completions and every Flows value is the original analysis
\* type of exactly one of them.
C15_SixCompletions ==
    XrefReturned =>
        /\ Len(XrefResult) = 6
        /\ \A t \in FlowTypes :
               Cardinality({ i \in 1..Len(XrefResult) :
                                 XrefResult[i].original_analysis_type = t }) = 1

\* C16: the reconciler makes six calls, one per analysis type in the order
\* of the result list (unless the LLM call raised), and the data points of
\* each call are exactly the other five analyses, never the original of
\* that call.
C16_PassesOneVsFive ==
    /\ \A i \in 1..Len(passes) :
           /\ passes[i].original \notin Range(passes[i].data_points)
           /\ Range(passes[i].data_points) = FlowTypes \ {passes[i].original}
           /\ Len(passes[i].data_points) = 5
    /\ ("cross_reference" \in analyzed
           /\ raised # [stage |-> "cross_reference", msg |-> "LLMError"]) =>
           /\ Len(passes) = 6
           /\ \A i \in 1..6 : passes[i].original = Flows[i]

\* C16 witness: the cross-reference analysis of a run made its six calls.
C16_Witness ==
    /\ "cross_reference" \in analyzed
    /\ Len(passes) = 6
    /\ "cross_reference" \in completed

\* C17: no completion names its own original analysis type among the
\* analysis types causing a discrepancy.
C17_NoSelfDiscrepancy ==
    XrefReturned =>
        \A i \in 1..Len(XrefResult) :
            /\ XrefResult[i].causing \subseteq FlowTypes
            /\ XrefResult[i].original_analysis_type \notin XrefResult[i].causing

\* The analysis step of the management-guidance stage.
GuidanceAnalysisStep ==
    /\ step["management_guidance"] = "analyze"
    /\ step'["management_guidance"] # "analyze"

\* C18: the management-guidance analysis never raises; without a transcript
\* and when the LLM call throws it returns a record with
\* transcript_available = False, tone NEUTRAL, signal NEUTRAL and the reason
\* as narrative, and the stage goes on to its reporting step.
C18_GuidanceDegrades ==
    [][ GuidanceAnalysisStep =>
            /\ raised' = raised
            /\ step'["management_guidance"] = "report"
            /\ (~raw.transcript \/ faults' # faults) =>
                   /\ GuidanceFields(ana').transcript_available = FALSE
                   /\ GuidanceFields(ana').overall_guidance_tone = "NEUTRAL"
                   /\ GuidanceFields(ana').consensus_validation_signal = "NEUTRAL"
                   /\ GuidanceFields(ana').narrative =
                          (IF ~raw.transcript THEN "no_transcript" ELSE "LLMError") ]_vars

\* C18 witness: the LLM threw in the management-guidance analysis of a run
\* and the run went on to the peer-group stage.
C18_Witness ==
    /\ InRun
    /\ results["management_guidance"].kind = "llm_error"
    /\ "peer_group" \in invoked

\* The points of a run where the PeerGroup is read: the fetch steps of the
\* forward-PE and news-sentiment stages, and all_analyses, built just before
\* the comprehensive report is invoked.
PeerGroupConsumed ==
    /\ InRun
    /\ \/ step["forward_pe"] = "fetch"
       \/ step["news_sentiment"] = "fetch"
       \/ "comprehensive_report" \in invoked

\* C19: wherever the PeerGroup is consumed, its peer_group list does not
\* contain the run's symbol.
C19_PeersExcludeSymbol == PeerGroupConsumed => symbol \notin Range(peers)

\* C20: the PeerGroup record aggregated at the end of the run has the
\* content it had when peer_group_agent returned it.
C20_RecordsReadOnly ==
    (InRun /\ "comprehensive_report" \in invoked) => peers = peers0

\* A peer list that is empty or holds the symbol it is the peer group of.
Malformed(p, sym) == p = << >> \/ sym \in Range(p)

\* C22: when peer_group_agent returned an empty or malformed peer group, no
\* stage after the peer-group stage is invoked in that run.
C22_MalformedPeerGroupStops ==
    (InRun /\ "peer_group" \in completed /\ Malformed(peers0, symbol)) =>
        \A s \in invoked : PosOf(s) <= PosOf("peer_group")

\* Subflows named by the claim that have all three steps.
ThreeStepFlows == {"historical_earnings", "management_guidance"}

\* The step of a subflow that follows a cache miss.
AfterMiss(s) ==
    /\ step[s] = "retrieve"
    /\ step'[s] \notin {"retrieve", "done", "raised"}

\* C24: after a cache miss a stage runs the steps it has in the order fetch,
\* analysis, reporting, each at most once and none before the previous one
\* has run; the analysis gets the fetched data, the reporting step the
\* analysis result, which is also what the stage returns.  The subflows of
\* historical earnings and management guidance have all three steps.
C24_FetchAnalyzeReport ==
    [][ \A s \in Stages :
          /\ AfterMiss(s) =>
                 /\ s \notin fetched /\ s \notin analyzed /\ s \notin reported
                 /\ step'[s] = (IF s \in HasFetch THEN "fetch" ELSE "analyze")
                 /\ s \in ThreeStepFlows => step'[s] = "fetch"
          /\ (step[s] = "fetch" /\ step'[s] # "fetch") =>
                 /\ s \notin fetched /\ s \in fetched'
                 /\ s \notin analyzed /\ s \notin reported
                 /\ step'[s] \in {IF s \in HasAnalysis THEN "analyze" ELSE "report", "raised"}
                 /\ s \in ThreeStepFlows => step'[s] \in {"analyze", "raised"}
          /\ (step[s] = "analyze" /\ step'[s] # "analyze") =>
                 /\ s \in HasFetch => s \in fetched
                 /\ s \notin analyzed /\ s \in analyzed'
                 /\ s \notin reported
                 /\ step'[s] \in {IF s \in Uncached THEN "done" ELSE "report", "raised"}
                 /\ step'[s] = "report" =>
                        ana' \in { analysis_task(s, run, symbol, StageInput(s), llm).rec :
                                       llm \in LLMOutcomes(s) }
          /\ (step[s] = "report" /\ step'[s] # "report") =>
                 /\ s \in HasAnalysis => s \in analyzed
                 /\ s \in HasFetch => s \in fetched
                 /\ s \notin reported /\ s \in reported'
                 /\ step'[s] \in {"done", "raised"}
                 /\ step'[s] = "done" => ret' = ana
          /\ (step[s] = "done" /\ step'[s] = "returned" /\ s \in reported) =>
                 results'[s] = ret ]_vars

\* C24 witness: the historical earnings stage of a run missed the cache, ran
\* its three steps and returned the record its analysis made.
C24_Witness ==
    /\ InRun
    /\ "historical_earnings" \in completed
    /\ {"historical_earnings"} \subseteq (fetched \cap analyzed \cap reported)
    /\ results["historical_earnings"] = Rec(run, "full", symbol)

\* The stage returned a record it took from the cache.
ServedFromCache(s) ==
    /\ s \in completed
    /\ s \notin analyzed
    /\ s \notin fetched

\* C25: a stage served from the cache depends on no stage that was
\* recomputed in this run.
C25_CacheHitDerivedFromCurrentUpstream ==
    InRun =>
        \A d \in Stages : ServedFromCache(d) =>
            \A u \in Upstream(d) : u \notin analyzed /\ u \notin fetched

\* C27: once the main job is COMPLETED or FAILED and the background task is
\* over, no sub-job of the run is RUNNING.
C27_NoSubJobLeftRunning ==
    (HasJob /\ apc = "done" /\ mainStatus \in Terminal) =>
        \A s \in Stages : subStatus[s] # "running"

\* C28: CANCELLED is the last status a main job gets.
C28_CancelledStays ==
    HasJob =>
        \A i \in 1..Len(mainTrace) : mainTrace[i] = "cancelled" => i = Len(mainTrace)

\* C30: a management-guidance record built because the LLM call threw is
\* returned only by the run that built it, never from the cache.
C30_DegradedGuidanceNotServed ==
    (InRun /\ "management_guidance" \in completed
           /\ results["management_guidance"].kind = "llm_error") =>
        /\ "management_guidance" \in analyzed
        /\ results["management_guidance"].by = run

\* C23: a stage served from the cache never gets a record that was written
\* more than 24 hours before the run.
C23_CacheHitWithinTTL ==
    InRun => \A s \in Stages : ServedFromCache(s) => << symbol, s >> \notin old

\* The reports the workflow result can carry.
Reports(res) ==
    { res.quantitative_report, res.qualitative_report, res.macro_report,
      res.synthesis_report, res.trade_advice }

\* C21: a returned workflow result whose error is set carries no report
\* produced before the failure.
C21_AllOrNothing ==
    (wpc \in {"returned", "stored"} /\ wresult.error # None) => Reports(wresult) = {None}

\* C29: when the workflow returns because one of the three parallel tasks
\* failed, no sibling task is still running and no sibling's exception is
\* left unretrieved.
C29_SiblingsSettledAtReturn ==
    (wpc = "returned" /\ wresult.error = "TaskError") =>
        \A t \in Tasks : wtask[t] # "running" /\ (wtask[t] = "raised" => t \in wawaited)

\* C26: the token_usage a run returns holds exactly the agent runs that run
\* made between its reset and its read, whatever a concurrent run does.
C26_TokenUsageExact ==
    \A r \in ConcurrentRuns :
        tpc[r] = "done" => token_usage[r] = [i \in 1..made[r] |-> r]

====
